---- MODULE Spec2Model ----
(***************************************************************************)
(* Model of remoteinference/models/models.py: the LlamaCPPLLM client.      *)
(* One client object is constructed from a ServerConfig and serves one     *)
(* call (completion or chat_completion).  The call is followed from the    *)
(* binding of its arguments, through __send_request and the HTTP exchange  *)
(* with the server, to the value returned or the exception raised.         *)
(*                                                                         *)
(* Python values are tagged records so that None, strings, numbers, lists  *)
(* and dicts can be told apart; a dict is a function from its keys.        *)
(***************************************************************************)
EXTENDS Integers, Sequences, FiniteSets, TLC

VARIABLES
    config,     \* self.config: the ServerConfig given to __init__
    pc,         \* position of the call
    method,     \* the public method called
    args,       \* the arguments of the call, kwargs included
    payload,    \* the payload dict built by the public method
    endpoint,   \* api_endpoint handed to __send_request
    requests,   \* the POSTs handed to requests.post, in order
    exchange,   \* what the network/server did with the POST
    response,   \* the local variable response of __send_request
    ret,        \* the value __send_request returned
    result,     \* the value the public method returned
    exc,        \* the exception that left the public method
    log         \* the records emitted on the module logger

vars == <<config, pc, method, args, payload, endpoint, requests, exchange,
          response, ret, result, exc, log>>

---------------------------------------------------------------------------
(* Bounds of the model *)

MaxTokens == 2

MaxMessages == 1

MaxExtras == 1

---------------------------------------------------------------------------
(* Python values *)

PyNone == [type |-> "NoneType"]

PyStr(s) == [type |-> "str", val |-> s]

PyInt(n) == [type |-> "int", val |-> n]

PyFloat(lit) == [type |-> "float", val |-> lit]

PyList(seq) == [type |-> "list", val |-> seq]

PyDict(f) == [type |-> "dict", val |-> f]

Unset == [type |-> "unset"]

---------------------------------------------------------------------------
(* Module constants *)

COMPLETION_ENDPOINT == "completion"

CHAT_ENDPOINT == "v1/chat/completions"

NO_CONTENT == 204

---------------------------------------------------------------------------
(* Inputs *)

Configs ==
    { [server_address |-> "localhost", server_port |-> 8080, api_key |-> "sk-one"],
      [server_address |-> "10.0.0.5",  server_port |-> 80,   api_key |-> "sk-two"] }

Prompts == {"", "Hi"}

Temperatures == {PyFloat("0.0"), PyFloat("0.7")}

TokenLimits == 1..MaxTokens

Message(role, content) ==
    PyDict("role" :> PyStr(role) @@ "content" :> PyStr(content))

MessageSet == { Message(r, "Hi") : r \in {"system", "user"} }

RECURSIVE SeqsUpTo(_, _)
SeqsUpTo(S, n) ==
    IF n = 0 THEN { <<>> }
    ELSE LET shorter == SeqsUpTo(S, n - 1)
         IN  shorter \cup { Append(s, e) : s \in shorter, e \in S }

MessageLists == SeqsUpTo(MessageSet, MaxMessages)

ExtraKeys == {"stop", "n_predict", "prompt", "temperature", "max_tokens", "messages"}

ExtraValues == {PyInt(64), PyStr("override")}

ExtraOptions ==
    UNION { [D -> ExtraValues] :
            D \in { K \in SUBSET ExtraKeys : Cardinality(K) <= MaxExtras } }

(* Response bodies a server may send. *)
BodyEmpty == ""

BodyHello == "{\"content\":\"hello\"}"

BodyHelloMore == "{\"content\":\"hello\",\"tokens_predicted\":1}"

BodyChoices == "{\"choices\":[]}"

BodyError == "{\"error\":\"boom\"}"

BodyNull == "null"

BodyHtml == "<html>Bad Gateway</html>"

Bodies == {BodyEmpty, BodyHello, BodyHelloMore, BodyChoices, BodyError, BodyNull, BodyHtml}

StatusCodes == {200, 500}

(* What can happen to the POST: requests.post raises a RequestException *)
(* or hands back the server's response.                                 *)
Outcomes ==
    { [kind |-> k] : k \in {"ConnectionError", "Timeout"} }
    \cup { [kind |-> "response", status_code |-> s, content |-> b] :
           s \in StatusCodes, b \in Bodies }

---------------------------------------------------------------------------
(* Pure parts of the code *)

(* Python binds keyword arguments to the named parameters first: a key of *)
(* **kwargs that names a parameter already bound is a TypeError at the    *)
(* call, before the body runs.                                            *)
CompletionParams == {"self", "prompt", "temperature", "max_tokens"}

ChatParams == {"self", "messages", "temperature", "max_tokens"}

Binds(params, kwargs) == DOMAIN kwargs \cap params = {}

(* {**fixed, **kwargs}: later entries replace earlier ones. *)
Overlay(fixed, kwargs) ==
    [k \in DOMAIN fixed \cup DOMAIN kwargs |->
        IF k \in DOMAIN kwargs THEN kwargs[k] ELSE fixed[k]]

CompletionPayloadFixedWins(prompt, temperature, max_tokens, kwargs) ==
    Overlay(kwargs,
            "prompt" :> PyStr(prompt)
              @@ "temperature" :> temperature
              @@ "n_predict" :> PyInt(max_tokens))

CompletionPayload(prompt, temperature, max_tokens, kwargs) ==
    Overlay("prompt" :> PyStr(prompt)
              @@ "temperature" :> temperature
              @@ "n_predict" :> PyInt(max_tokens),
            kwargs)

ChatPayloadNPredict(messages, temperature, max_tokens, kwargs) ==
    Overlay("messages" :> PyList(messages)
              @@ "temperature" :> temperature
              @@ "n_predict" :> PyInt(max_tokens),
            kwargs)

ChatPayload(messages, temperature, max_tokens, kwargs) ==
    Overlay("messages" :> PyList(messages)
              @@ "temperature" :> temperature
              @@ "max_tokens" :> PyInt(max_tokens),
            kwargs)

HeadersBareKey(cfg) ==
    "accept" :> "application/json"
      @@ "content-type" :> "application/json"
      @@ "Authorization" :> cfg.api_key

Headers(cfg) ==
    "accept" :> "application/json"
      @@ "content-type" :> "application/json"
      @@ "Authorization" :> ("Bearer " \o cfg.api_key)

ServerUrl(cfg, api_endpoint) ==
    "http://" \o cfg.server_address \o ":" \o ToString(cfg.server_port)
        \o "/" \o api_endpoint

(* requests.Response() with status_code NO_CONTENT: no body was read, its *)
(* content is None, which is false in a condition like an empty body.     *)
Placeholder == [status_code |-> NO_CONTENT, content |-> BodyEmpty]

(* response.raise_for_status() raises HTTPError for 4xx and 5xx. *)
RaisesForStatus(status_code) == status_code >= 400 /\ status_code < 600

(* response.json() on the bodies of the model. *)
JsonLoads(body) ==
    CASE body = BodyHello -> [exc |-> "none", val |-> PyDict("content" :> PyStr("hello"))]
      [] body = BodyHelloMore ->
            [exc |-> "none",
             val |-> PyDict("content" :> PyStr("hello") @@ "tokens_predicted" :> PyInt(1))]
      [] body = BodyChoices -> [exc |-> "none", val |-> PyDict("choices" :> PyList(<<>>))]
      [] body = BodyError -> [exc |-> "none", val |-> PyDict("error" :> PyStr("boom"))]
      [] body = BodyNull -> [exc |-> "none", val |-> PyNone]
      [] OTHER -> [exc |-> "JSONDecodeError", val |-> Unset]

ResponseValueAlwaysDecodes(resp) == JsonLoads(resp.content)

(* The tail of __send_request: decode a body that is not empty. *)
ResponseValue(resp) ==
    IF resp.content # BodyEmpty
    THEN JsonLoads(resp.content)
    ELSE [exc |-> "none", val |-> PyNone]

(* value[key] *)
GetItem(value, key) ==
    IF value.type = "dict"
    THEN IF key \in DOMAIN value.val
         THEN [exc |-> "none", val |-> value.val[key]]
         ELSE [exc |-> "KeyError", val |-> Unset]
    ELSE [exc |-> "TypeError", val |-> Unset]

CompletionResultWhole(resp) == [exc |-> "none", val |-> resp]

CompletionResult(resp) == GetItem(resp, "content")

ChatResultContent(resp) == GetItem(resp, "content")

ChatResult(resp) == [exc |-> "none", val |-> resp]

PostWithRetry(sent, req) == Append(Append(sent, req), req)

Post(sent, req) == Append(sent, req)

LogRecord(level, line) == [level |-> level, line |-> line]

---------------------------------------------------------------------------
(* The client *)

Init ==
    /\ config \in Configs
    /\ pc = "idle"
    /\ method = "none"
    /\ args = Unset
    /\ payload = Unset
    /\ endpoint = ""
    /\ requests = <<>>
    /\ exchange = [kind |-> "none"]
    /\ response = Unset
    /\ ret = Unset
    /\ result = Unset
    /\ exc = "none"
    /\ log = <<>>

completion ==
    /\ pc = "idle"
    /\ \E prompt \in Prompts, temperature \in Temperatures,
          max_tokens \in TokenLimits, kwargs \in ExtraOptions :
         /\ method' = "completion"
         /\ args' = [prompt |-> prompt, temperature |-> temperature,
                     max_tokens |-> max_tokens, kwargs |-> kwargs]
         /\ IF Binds(CompletionParams, kwargs)
            THEN /\ payload' = CompletionPayload(prompt, temperature, max_tokens, kwargs)
                 /\ endpoint' = COMPLETION_ENDPOINT
                 /\ pc' = "send_request"
                 /\ exc' = exc
            ELSE /\ pc' = "raised"
                 /\ exc' = "TypeError"
                 /\ UNCHANGED <<payload, endpoint>>
    /\ UNCHANGED <<config, requests, exchange, response, ret, result, log>>

chat_completion ==
    /\ pc = "idle"
    /\ \E messages \in MessageLists, temperature \in Temperatures,
          max_tokens \in TokenLimits, kwargs \in ExtraOptions :
         /\ method' = "chat_completion"
         /\ args' = [messages |-> messages, temperature |-> temperature,
                     max_tokens |-> max_tokens, kwargs |-> kwargs]
         /\ IF Binds(ChatParams, kwargs)
            THEN /\ payload' = ChatPayload(messages, temperature, max_tokens, kwargs)
                 /\ endpoint' = CHAT_ENDPOINT
                 /\ pc' = "send_request"
                 /\ exc' = exc
                 /\ log' = Append(log, LogRecord("DEBUG", 80))
            ELSE /\ pc' = "raised"
                 /\ exc' = "TypeError"
                 /\ UNCHANGED <<payload, endpoint, log>>
    /\ UNCHANGED <<config, requests, exchange, response, ret, result>>

send_request ==
    /\ pc = "send_request"
    /\ \E outcome \in Outcomes :
         LET req == [url |-> ServerUrl(config, endpoint),
                     headers |-> Headers(config),
                     json |-> payload]
             answered == outcome.kind = "response"
             resp == IF answered
                     THEN [status_code |-> outcome.status_code,
                           content |-> outcome.content]
                     ELSE Placeholder
             failed == IF answered THEN RaisesForStatus(outcome.status_code) ELSE TRUE
             rv == ResponseValue(resp)
         IN  /\ requests' = Post(requests, req)
             /\ exchange' = outcome
             /\ response' = resp
             /\ log' = log \o << LogRecord("INFO", 108), LogRecord("DEBUG", 109),
                                 LogRecord("DEBUG", 110),
                                 IF failed THEN LogRecord("ERROR", 126)
                                           ELSE LogRecord("INFO", 124) >>
             /\ IF rv.exc = "none"
                THEN /\ ret' = rv.val
                     /\ pc' = IF method = "completion" THEN "completion_return"
                                                       ELSE "chat_return"
                     /\ exc' = exc
                ELSE /\ pc' = "raised"
                     /\ exc' = rv.exc
                     /\ ret' = ret
    /\ UNCHANGED <<config, method, args, payload, endpoint, result>>

completion_return ==
    /\ pc = "completion_return"
    /\ LET rv == CompletionResult(ret)
       IN  IF rv.exc = "none"
           THEN /\ log' = Append(log, LogRecord("DEBUG", 53))
                /\ result' = rv.val
                /\ pc' = "returned"
                /\ exc' = exc
           ELSE /\ pc' = "raised"
                /\ exc' = rv.exc
                /\ UNCHANGED <<log, result>>
    /\ UNCHANGED <<config, method, args, payload, endpoint, requests, exchange,
                   response, ret>>

chat_return ==
    /\ pc = "chat_return"
    /\ LET rv == ChatResult(ret)
       IN  IF rv.exc = "none"
           THEN /\ log' = Append(log, LogRecord("DEBUG", 82))
                /\ result' = rv.val
                /\ pc' = "returned"
                /\ exc' = exc
           ELSE /\ pc' = "raised"
                /\ exc' = rv.exc
                /\ UNCHANGED <<log, result>>
    /\ UNCHANGED <<config, method, args, payload, endpoint, requests, exchange,
                   response, ret>>

Next ==
    \/ completion
    \/ chat_completion
    \/ send_request
    \/ completion_return
    \/ chat_return

Spec == Init /\ [][Next]_vars

---------------------------------------------------------------------------
(* Shorthands for the properties *)

Done == pc \in {"returned", "raised"}

Called(m) == method = m

TypeOK ==
    /\ config \in Configs
    /\ pc \in {"idle", "send_request", "completion_return", "chat_return",
               "returned", "raised"}
    /\ method \in {"none", "completion", "chat_completion"}
    /\ exc \in {"none", "TypeError", "KeyError", "JSONDecodeError"}
    /\ exchange \in Outcomes \cup {[kind |-> "none"]}

Answered == exchange.kind = "response"

Success == Answered /\ exchange.status_code >= 200 /\ exchange.status_code < 300

HelperLeft == exchange.kind # "none"

ErrorLogged == \E i \in 1..Len(log) : log[i].level = "ERROR"

ExpectedUrl(path) ==
    IF config.server_address = "localhost"
    THEN "http://localhost:8080/" \o path
    ELSE "http://10.0.0.5:80/" \o path

ExpectedAuthorization ==
    IF config.api_key = "sk-one" THEN "Bearer sk-one" ELSE "Bearer sk-two"

---------------------------------------------------------------------------
(* C1: when the POST raises a connection error, completion and          *)
(* chat_completion both return None, the failure is logged and no       *)
(* exception leaves the call.  The code breaks this for completion:     *)
(* None["content"] raises TypeError.                                    *)
C1_UnreachableYieldsNone ==
    (Done /\ exchange.kind = "ConnectionError")
        => /\ pc = "returned"
           /\ result = PyNone
           /\ exc = "none"
           /\ ErrorLogged

(* C2: a non-2xx answer, whatever its body, makes the request helper    *)
(* yield None as for an unreachable server; the body is never decoded   *)
(* and handed on.  The code decodes the body of an error answer.        *)
C2_NonSuccessYieldsNone ==
    (Answered /\ ~Success)
        => /\ ret = PyNone
           /\ exc # "JSONDecodeError"
           /\ (pc = "returned" => result = PyNone)

(* C3: whatever the HTTP exchange did, no exception leaves completion   *)
(* or chat_completion.                                                   *)
C3_NoExceptionEscapes ==
    HelperLeft => (pc # "raised" /\ exc = "none")

C6_BearerHeader ==
    \A i \in 1..Len(requests) :
        /\ DOMAIN requests[i].headers = {"accept", "content-type", "Authorization"}
        /\ requests[i].headers["Authorization"] = ExpectedAuthorization
        /\ requests[i].headers["accept"] = "application/json"
        /\ requests[i].headers["content-type"] = "application/json"

C6_Witness ==
    /\ Len(requests) = 1
    /\ DOMAIN args.kwargs # {}
    /\ config.api_key = "sk-two"
    /\ requests[1].headers["Authorization"] = "Bearer sk-two"

(* C7: on a successful answer whose JSON object has the key "content",  *)
(* completion returns the value under "content", not the object.        *)
C7_CompletionReturnsContent ==
    (Called("completion") /\ Success /\ Done
       /\ exchange.content \in {BodyHello, BodyHelloMore})
        => /\ pc = "returned"
           /\ exc = "none"
           /\ result = PyStr("hello")

C7_Witness ==
    /\ Called("completion")
    /\ Success
    /\ exchange.content = BodyHelloMore
    /\ pc = "returned"
    /\ result = PyStr("hello")

C9_EmptyBodyYieldsNone ==
    (HelperLeft /\ response.content = BodyEmpty)
        => /\ ret = PyNone
           /\ exc # "JSONDecodeError"
           /\ Called("chat_completion") => (pc # "raised" /\ exc = "none")
           /\ (Called("chat_completion") /\ Done)
                 => (pc = "returned" /\ result = PyNone)

C9_Witness ==
    /\ Called("chat_completion")
    /\ exchange.kind = "Timeout"
    /\ response = Placeholder
    /\ pc = "returned"
    /\ result = PyNone

(* C10: a call makes one POST attempt: never a second one, whatever the *)
(* first did, and it neither returns nor gets an answer to work on      *)
(* without having made it.                                               *)
C10_SinglePost ==
    /\ Len(requests) <= 1
    /\ HelperLeft => Len(requests) = 1
    /\ pc \in {"completion_return", "chat_return", "returned"} => Len(requests) = 1
    /\ (pc = "raised" /\ exc # "TypeError") => Len(requests) = 1

C10_Witness ==
    /\ exchange.kind = "ConnectionError"
    /\ Done
    /\ ErrorLogged
    /\ Len(requests) = 1

====
